---- MODULE Spec2Model ----
(***************************************************************************)
(* A model of meqa/mqplan/plan.go: the parameter-merge algebra of          *)
(* TestParams, the plan loader, the fuzz-failure corpus (ReadFails /       *)
(* WriteFailures), the run history and the recursive suite interpreter     *)
(* TestPlan.Run.                                                           *)
(*                                                                         *)
(* One module, several specifications over the same variables:             *)
(*   SpecParams   TestParams.Copy / TestParams.Add on drawn bundles        *)
(*   SpecHistory  TestHistory.Append / TestHistory.GetTest                 *)
(*   SpecLoad     TestPlan.AddFromString / TestPlan.InitFromFile           *)
(*   SpecCorpus   ReadFails / failure collection / WriteFailures, by runs  *)
(*   SpecRoundTrip WriteFailures then ReadFails on drawn failure lists     *)
(*   Spec         TestPlan.Run on drawn plans                              *)
(*   SpecTerm     one TestPlan.Run under fairness of its steps             *)
(*   SpecAdd      TestPlan.Add on drawn suites                             *)
(* Each specification leaves the variables of the others unchanged.        *)
(***************************************************************************)
EXTENDS Integers, Sequences, FiniteSets, TLC

VARIABLES
    \* TestParams.Copy / Add: the destination before, the source, the
    \* destination after, and the operation applied
    pDst, pSrc, pRes, pOp,
    \* TestHistory: History.tests, and the result of the last GetTest
    History, got,
    \* the TestSuite objects by address; TestPlan: SuiteMap (name -> address),
    \* SuiteList (addresses), the plan's TestParams and Strict
    heap, SuiteMap, SuiteList, planParams, planStrict,
    \* the record of the last loader call (chunk, defaults before, error)
    loadLog,
    \* failure corpus: the files mqfails.jsonl and newFails.jsonl, meta.yml,
    \* and the plan's OldFailuresMap, OtherFailures, NewFailures, FuzzType, Repro
    mqFails, newFails, metaFile,
    OldFailuresMap, OtherFailures, NewFailures, FuzzType, Repro,
    \* the record of the last corpus operation
    corpusLog,
    \* TestPlan.Run: the call stack of Run frames, plan.resultList, the value
    \* returned by the last top-level Run, and the number of top-level calls
    stack, resultList, ret, runs

paramVars == <<pDst, pSrc, pRes, pOp>>
histVars == <<History, got>>
planVars == <<heap, SuiteMap, SuiteList, planParams, planStrict>>
loadVars == <<loadLog>>
corpusVars == <<mqFails, newFails, metaFile, OldFailuresMap, OtherFailures,
                NewFailures, FuzzType, Repro, corpusLog>>
runVars == <<stack, resultList, ret, runs>>
vars == <<paramVars, histVars, planVars, loadVars, corpusVars, runVars>>

MeqaInit == "meqa_init"

----------------------------------------------------------------------------
(* TestParams: four string-keyed maps and a body.  A map is a function     *)
(* whose domain is its key set (a nil map and an empty map both have no    *)
(* key).  The body is nil, a map, or any other value.                      *)

EmptyMap == [k \in {} |-> 0]

NilBody == [kind |-> "nil", v |-> "-", m |-> EmptyMap]
ValBody(x) == [kind |-> "val", v |-> x, m |-> EmptyMap]
MapBody(f) == [kind |-> "map", v |-> "-", m |-> f]

NoParams == [QueryParams |-> EmptyMap, FormParams |-> EmptyMap,
             PathParams |-> EmptyMap, HeaderParams |-> EmptyMap,
             BodyParams |-> NilBody]

\* mqutil.MapCombine: the union of the two maps, the source winning a conflict
MapCombine(dst, src) ==
    [k \in (DOMAIN dst) \cup (DOMAIN src) |->
        IF k \in DOMAIN src THEN src[k] ELSE dst[k]]

\* mqutil.MapAdd: the union of the two maps, the destination winning a conflict
MapAdd(dst, src) ==
    [k \in (DOMAIN dst) \cup (DOMAIN src) |->
        IF k \in DOMAIN dst THEN dst[k] ELSE src[k]]

\* Copy as it would be without the final overwrite when the source body is nil
CopyKeepBody(dst, src) ==
    [QueryParams |-> MapCombine(dst.QueryParams, src.QueryParams),
     FormParams |-> MapCombine(dst.FormParams, src.FormParams),
     PathParams |-> MapCombine(dst.PathParams, src.PathParams),
     HeaderParams |-> MapCombine(dst.HeaderParams, src.HeaderParams),
     BodyParams |->
        IF dst.BodyParams.kind = "map" /\ src.BodyParams.kind = "map"
        THEN MapBody(MapCombine(dst.BodyParams.m, src.BodyParams.m))
        ELSE IF src.BodyParams.kind = "nil" THEN dst.BodyParams
        ELSE src.BodyParams]

\* TestParams.Copy: the value of dst after dst.Copy(src)
Copy(dst, src) ==
    [QueryParams |-> MapCombine(dst.QueryParams, src.QueryParams),
     FormParams |-> MapCombine(dst.FormParams, src.FormParams),
     PathParams |-> MapCombine(dst.PathParams, src.PathParams),
     HeaderParams |-> MapCombine(dst.HeaderParams, src.HeaderParams),
     BodyParams |->
        IF dst.BodyParams.kind = "map" /\ src.BodyParams.kind = "map"
        THEN MapBody(MapCombine(dst.BodyParams.m, src.BodyParams.m))
        ELSE src.BodyParams]

\* Add as it would be if it adopted the source body whenever the two bodies
\* are not both maps
AddAdoptBody(dst, src) ==
    [QueryParams |-> MapAdd(dst.QueryParams, src.QueryParams),
     FormParams |-> MapAdd(dst.FormParams, src.FormParams),
     PathParams |-> MapAdd(dst.PathParams, src.PathParams),
     HeaderParams |-> MapAdd(dst.HeaderParams, src.HeaderParams),
     BodyParams |->
        IF dst.BodyParams.kind = "map" /\ src.BodyParams.kind = "map"
        THEN MapBody(MapAdd(dst.BodyParams.m, src.BodyParams.m))
        ELSE src.BodyParams]

\* TestParams.Add: the value of dst after dst.Add(src)
Add(dst, src) ==
    [QueryParams |-> MapAdd(dst.QueryParams, src.QueryParams),
     FormParams |-> MapAdd(dst.FormParams, src.FormParams),
     PathParams |-> MapAdd(dst.PathParams, src.PathParams),
     HeaderParams |-> MapAdd(dst.HeaderParams, src.HeaderParams),
     BodyParams |->
        IF dst.BodyParams.kind = "map" /\ src.BodyParams.kind = "map"
        THEN MapBody(MapAdd(dst.BodyParams.m, src.BodyParams.m))
        ELSE IF dst.BodyParams.kind = "nil" THEN src.BodyParams
        ELSE dst.BodyParams]

----------------------------------------------------------------------------
(* The bundles TestParams.Copy and TestParams.Add are applied to.          *)

Keys == {"k1", "k2"}
Vals == {1, 2}

\* every map over Keys
AllMaps == UNION {[D -> Vals] : D \in SUBSET Keys}
\* the maps of the slots that are drawn from fewer values
FewMaps == {EmptyMap, [k \in {"k1"} |-> 1]}
SrcFewMaps == {EmptyMap, [k \in {"k1"} |-> 2]}
\* the header slot: one destination map and one source map, overlapping on k1
DstHeaderMaps == {[k \in {"k1"} |-> 1]}
SrcHeaderMaps == {[k \in {"k1", "k2"} |-> 2]}

Bodies == {NilBody, ValBody("s1"), ValBody("s2")}
            \cup {MapBody(f) : f \in {EmptyMap, [k \in {"k1"} |-> 1],
                                      [k \in {"k1", "k2"} |-> 2]}}

DstBundles ==
    [QueryParams : AllMaps, FormParams : FewMaps, PathParams : FewMaps,
     HeaderParams : DstHeaderMaps, BodyParams : Bodies]
SrcBundles ==
    [QueryParams : AllMaps, FormParams : SrcFewMaps, PathParams : SrcFewMaps,
     HeaderParams : SrcHeaderMaps, BodyParams : Bodies]

Slots == {"QueryParams", "FormParams", "PathParams", "HeaderParams"}

----------------------------------------------------------------------------
(* The values every variable has while its component is not exercised.     *)

NoRet == [set |-> FALSE]

ParamsIdle == pDst = NoParams /\ pSrc = NoParams /\ pRes = NoParams /\ pOp = "none"
HistIdle == History = <<>> /\ got = [op |-> "none"]
PlanIdle ==
    /\ heap = <<>>
    /\ SuiteMap = EmptyMap
    /\ SuiteList = <<>>
    /\ planParams = NoParams
    /\ planStrict = FALSE
LoadIdle == loadLog = [op |-> "none"]
CorpusIdle ==
    /\ mqFails = [exists |-> FALSE, lines |-> <<>>]
    /\ newFails = [exists |-> FALSE, lines |-> <<>>]
    /\ metaFile = "nil"
    /\ OldFailuresMap = [paths |-> {}, keys |-> {}]
    /\ OtherFailures = <<>>
    /\ NewFailures = <<>>
    /\ FuzzType = "none"
    /\ Repro = FALSE
    /\ corpusLog = [op |-> "none"]
RunIdle == stack = <<>> /\ resultList = <<>> /\ ret = NoRet /\ runs = 0

----------------------------------------------------------------------------
(* SpecParams: dst.Copy(src) and dst.Add(src) on every pair of bundles.    *)

InitParams ==
    /\ pDst \in DstBundles
    /\ pSrc \in SrcBundles
    /\ pRes = pDst
    /\ pOp = "none"
    /\ HistIdle /\ PlanIdle /\ LoadIdle /\ CorpusIdle /\ RunIdle

DoCopy ==
    /\ pOp = "none"
    /\ pRes' = Copy(pDst, pSrc)
    /\ pOp' = "Copy"
    /\ UNCHANGED <<pDst, pSrc, histVars, planVars, loadVars, corpusVars, runVars>>

DoAdd ==
    /\ pOp = "none"
    /\ pRes' = Add(pDst, pSrc)
    /\ pOp' = "Add"
    /\ UNCHANGED <<pDst, pSrc, histVars, planVars, loadVars, corpusVars, runVars>>

NextParams == DoCopy \/ DoAdd

SpecParams == InitParams /\ [][NextParams]_vars

\* C7: after A.Copy(B) every mapping slot of A holds B's value for every key
\* of B, A's original value for every key only in A, and no other key; A's
\* body is the source-wins merge when both bodies are mappings and is exactly
\* B's body otherwise, also when B's body is absent.
C7_CopySourceWins ==
    pOp = "Copy" =>
        /\ \A s \in Slots :
            /\ DOMAIN pRes[s] = (DOMAIN pDst[s]) \cup (DOMAIN pSrc[s])
            /\ \A k \in DOMAIN pSrc[s] : pRes[s][k] = pSrc[s][k]
            /\ \A k \in (DOMAIN pDst[s]) \ (DOMAIN pSrc[s]) : pRes[s][k] = pDst[s][k]
        /\ IF pDst.BodyParams.kind = "map" /\ pSrc.BodyParams.kind = "map"
           THEN /\ pRes.BodyParams.kind = "map"
                /\ DOMAIN pRes.BodyParams.m =
                      (DOMAIN pDst.BodyParams.m) \cup (DOMAIN pSrc.BodyParams.m)
                /\ \A k \in DOMAIN pSrc.BodyParams.m :
                      pRes.BodyParams.m[k] = pSrc.BodyParams.m[k]
                /\ \A k \in (DOMAIN pDst.BodyParams.m) \ (DOMAIN pSrc.BodyParams.m) :
                      pRes.BodyParams.m[k] = pDst.BodyParams.m[k]
           ELSE pRes.BodyParams = pSrc.BodyParams

\* a Copy of a bundle whose query slot conflicts with the destination's on k1,
\* onto a destination that keeps k2 alone, with an absent source body
\* overwriting a present destination body
C7_Witness ==
    /\ pOp = "Copy"
    /\ "k1" \in DOMAIN pDst.QueryParams /\ "k1" \in DOMAIN pSrc.QueryParams
    /\ pDst.QueryParams["k1"] # pSrc.QueryParams["k1"]
    /\ "k2" \in (DOMAIN pDst.QueryParams) \ (DOMAIN pSrc.QueryParams)
    /\ pDst.BodyParams.kind = "val"
    /\ pSrc.BodyParams.kind = "nil"
    /\ pRes.BodyParams = NilBody

\* C8: after A.Add(B) every mapping slot of A keeps A's original value for
\* every key of A, holds B's value for every key only in B, and no other key;
\* A's body is the destination-wins merge when both bodies are mappings, B's
\* body when A's body was unset, and A's original body in every other case.
C8_AddDestinationWins ==
    pOp = "Add" =>
        /\ \A s \in Slots :
            /\ DOMAIN pRes[s] = (DOMAIN pDst[s]) \cup (DOMAIN pSrc[s])
            /\ \A k \in DOMAIN pDst[s] : pRes[s][k] = pDst[s][k]
            /\ \A k \in (DOMAIN pSrc[s]) \ (DOMAIN pDst[s]) : pRes[s][k] = pSrc[s][k]
        /\ IF pDst.BodyParams.kind = "map" /\ pSrc.BodyParams.kind = "map"
           THEN /\ pRes.BodyParams.kind = "map"
                /\ DOMAIN pRes.BodyParams.m =
                      (DOMAIN pDst.BodyParams.m) \cup (DOMAIN pSrc.BodyParams.m)
                /\ \A k \in DOMAIN pDst.BodyParams.m :
                      pRes.BodyParams.m[k] = pDst.BodyParams.m[k]
                /\ \A k \in (DOMAIN pSrc.BodyParams.m) \ (DOMAIN pDst.BodyParams.m) :
                      pRes.BodyParams.m[k] = pSrc.BodyParams.m[k]
           ELSE IF pDst.BodyParams.kind = "nil"
                THEN pRes.BodyParams = pSrc.BodyParams
                ELSE pRes.BodyParams = pDst.BodyParams

\* an Add that meets a conflicting key, a key only in the source, and a
\* mapping destination body against a non-mapping source body
C8_Witness ==
    /\ pOp = "Add"
    /\ "k1" \in DOMAIN pDst.QueryParams /\ "k1" \in DOMAIN pSrc.QueryParams
    /\ pDst.QueryParams["k1"] # pSrc.QueryParams["k1"]
    /\ "k2" \in (DOMAIN pSrc.QueryParams) \ (DOMAIN pDst.QueryParams)
    /\ pDst.BodyParams.kind = "map"
    /\ pSrc.BodyParams.kind = "val"
    /\ pRes.BodyParams = pDst.BodyParams

----------------------------------------------------------------------------
(* SpecHistory: TestHistory.  History.tests is a sequence of test          *)
(* instances; an instance is a pointer in the code, so each appended       *)
(* instance carries its own identity (id).                                 *)

MaxHistory == 4
HistNames == {"a", "b", "c"}

\* the nil *Test
NilTest == [nil |-> TRUE]

RECURSIVE ScanForward(_, _, _)
ScanForward(h, name, i) ==
    IF i > Len(h) THEN NilTest
    ELSE IF h[i].Name = name THEN h[i]
    ELSE ScanForward(h, name, i + 1)

\* GetTest as it would be if it scanned from the oldest instance
GetTestOldest(h, name) == ScanForward(h, name, 1)

\* the loop of GetTest: for i := len(h.tests) - 1; i >= 0; i--
RECURSIVE ScanBack(_, _, _)
ScanBack(h, name, i) ==
    IF i < 1 THEN NilTest
    ELSE IF h[i].Name = name THEN h[i]
    ELSE ScanBack(h, name, i - 1)

\* TestHistory.GetTest
GetTest(h, name) == ScanBack(h, name, Len(h))

\* TestHistory.Append: h.tests = append(h.tests, t)
HistoryAppend(h, t) == Append(h, t)

InitHistory ==
    /\ History = <<>>
    /\ got = [op |-> "none"]
    /\ ParamsIdle /\ PlanIdle /\ LoadIdle /\ CorpusIdle /\ RunIdle

DoAppend ==
    /\ Len(History) < MaxHistory
    /\ \E n \in HistNames :
        History' = HistoryAppend(History, [Name |-> n, id |-> Len(History) + 1])
    /\ got' = [op |-> "Append"]
    /\ UNCHANGED <<paramVars, planVars, loadVars, corpusVars, runVars>>

DoGetTest ==
    /\ \E n \in HistNames :
        got' = [op |-> "GetTest", name |-> n, res |-> GetTest(History, n)]
    /\ UNCHANGED <<History, paramVars, planVars, loadVars, corpusVars, runVars>>

NextHistory == DoAppend \/ DoGetTest

SpecHistory == InitHistory /\ [][NextHistory]_vars

\* the positions of History that hold an instance named name
Named(name) == {i \in 1..Len(History) : History[i].Name = name}

\* C6: GetTest(name) returns the most recently appended instance named name
\* when there is one, and nil when no appended instance carries that name.
C6_GetTestMostRecent ==
    got.op = "GetTest" =>
        IF Named(got.name) = {}
        THEN got.res = NilTest
        ELSE \E i \in Named(got.name) :
                /\ \A j \in Named(got.name) : j <= i
                /\ got.res = History[i]

\* a lookup of a name appended twice, with another name appended after
C6_Witness ==
    /\ got.op = "GetTest"
    /\ Cardinality(Named(got.name)) >= 2
    /\ Len(History) \notin Named(got.name)
    /\ got.res # NilTest
    /\ \A j \in Named(got.name) : j <= got.res.id

----------------------------------------------------------------------------
(* The fuzz-failure corpus.  A Payload is a record; a file is a sequence   *)
(* of lines, each the JSON encoding of one Payload.  The files are written *)
(* only by WriteFailures, and the file system does not fail.               *)

MaxFile == 3
MaxNew == 2

\* mqutil.FuzzAll: the wildcard fuzz type
FuzzAll == "all"
FuzzTypes == {"t1", "t2"}
Metas == {"nil", "m1"}

\* the payloads a step can report: no metadata yet
Payloads ==
    [Endpoint : {"/pets"}, Method : {"post"}, Field : {"name"},
     Value : {"v1", "v2"}, FuzzType : FuzzTypes, Meta : {"nil"}]

\* json.Encoder.Encode of a Payload: one line of the file
Encode(v) == <<v.Endpoint, v.Method, v.Field, v.Value, v.FuzzType, v.Meta>>

\* json.Decoder.Decode into a Payload
Decode(l) ==
    [Endpoint |-> l[1], Method |-> l[2], Field |-> l[3], Value |-> l[4],
     FuzzType |-> l[5], Meta |-> l[6]]

EncodeAll(recs) == [i \in 1..Len(recs) |-> Encode(recs[i])]

\* the key of a failure in OldFailuresMap:
\* endpoint -> method -> field -> FuzzValue{Value, FuzzType}
FailKey(v) == <<v.Endpoint, v.Method, v.Field, v.Value, v.FuzzType>>
\* the maps ReadFails creates on the way to the key
FailPath(v) == <<v.Endpoint, v.Method, v.Field>>

\* ReadMetadata: the content of meta.yml, nil when the file cannot be read
ReadMetadata == metaFile

\* the test of ReadFails as it would be without the wildcard
MatchesExact(ft, v) == ft = v.FuzzType

\* plan.FuzzType == v.FuzzType || plan.FuzzType == mqutil.FuzzAll
Matches(ft, v) == ft = v.FuzzType \/ ft = FuzzAll

\* the decode loop of ReadFails from line i on: the failures map and
\* plan.OtherFailures when the decoder reaches the end of the file
RECURSIVE ReadLoop(_, _, _, _, _)
ReadLoop(lines, i, ft, failures, other) ==
    IF i > Len(lines) THEN [failures |-> failures, other |-> other]
    ELSE LET v == Decode(lines[i])
             withPath == [failures EXCEPT !.paths = @ \cup {FailPath(v)}]
         IN IF Matches(ft, v)
            THEN ReadLoop(lines, i + 1, ft,
                          [withPath EXCEPT !.keys = @ \cup {FailKey(v)}], other)
            ELSE ReadLoop(lines, i + 1, ft, withPath, Append(other, v))

\* the payloads with their metadata set: v.Meta = meta
WithMeta(recs, meta) == [i \in 1..Len(recs) |-> [recs[i] EXCEPT !.Meta = meta]]

\* the cumulative file as it would be if Repro mode appended as well
WrittenCorpusNoTrunc(prev, repro, other, new) ==
    prev \o (IF repro THEN EncodeAll(other) ELSE <<>>) \o EncodeAll(new)

\* the lines of mqfails.jsonl after WriteFailures: O_TRUNC and the
\* OtherFailures in Repro mode, O_APPEND otherwise, then the NewFailures
WrittenCorpus(prev, repro, other, new) ==
    IF repro
    THEN EncodeAll(other) \o EncodeAll(new)
    ELSE prev \o EncodeAll(new)

\* the store of Run as it would be if it kept only the latest payloads
AppendNewFailuresLatest(nf, payloads) ==
    IF Len(payloads) > 0 THEN payloads ELSE nf

\* Run, lines 457-462: plan.NewFailures = append(plan.NewFailures, payloads...)
AppendNewFailures(nf, payloads) ==
    IF Len(payloads) > 0 THEN nf \o payloads ELSE nf

\* whether the round trip "one write to an empty corpus, then one read" is
\* under way: init, written, read, or other
RtAfterWrite(rt, prev) == IF rt = "init" /\ prev = <<>> THEN "written" ELSE "other"
RtAfterRead(rt, ok) ==
    IF rt = "written" /\ ok THEN "read"
    ELSE IF rt = "init" THEN "init"
    ELSE "other"

\* TestPlan.ReadFails
ReadFails ==
    /\ corpusLog.phase \in {"new", "open"}
    /\ IF ~mqFails.exists
       THEN \* os.Open fails: the error is returned, nothing is stored
            /\ corpusLog' = [corpusLog EXCEPT !.op = "ReadFails", !.err = TRUE,
                                !.phase = "open", !.prev = <<>>,
                                !.rt = RtAfterRead(corpusLog.rt, FALSE)]
            /\ UNCHANGED <<OldFailuresMap, OtherFailures>>
       ELSE LET r == ReadLoop(mqFails.lines, 1, FuzzType,
                              [paths |-> {}, keys |-> {}], OtherFailures)
            IN /\ Len(r.other) <= MaxFile
               /\ OldFailuresMap' = r.failures
               /\ OtherFailures' = r.other
               /\ corpusLog' = [corpusLog EXCEPT !.op = "ReadFails", !.err = FALSE,
                                   !.phase = "open", !.prev = <<>>,
                                   !.rt = RtAfterRead(corpusLog.rt, TRUE)]
    /\ UNCHANGED <<mqFails, newFails, metaFile, NewFailures, FuzzType, Repro>>
    /\ UNCHANGED <<paramVars, histVars, planVars, loadVars, runVars>>

\* TestPlan.WriteFailures
WriteFailures ==
    /\ corpusLog.phase = "open"
    /\ LET meta == ReadMetadata
           new == WithMeta(NewFailures, meta)
           lines == WrittenCorpus(mqFails.lines, Repro, OtherFailures, new)
       IN /\ Len(lines) <= MaxFile
          /\ mqFails' = [exists |-> TRUE, lines |-> lines]
          /\ newFails' = [exists |-> TRUE, lines |-> EncodeAll(new)]
          /\ NewFailures' = new
          /\ corpusLog' = [corpusLog EXCEPT !.op = "WriteFailures", !.err = FALSE,
                              !.prev = mqFails.lines,
                              !.rt = RtAfterWrite(corpusLog.rt, mqFails.lines)]
    /\ UNCHANGED <<metaFile, OldFailuresMap, OtherFailures, FuzzType, Repro>>
    /\ UNCHANGED <<paramVars, histVars, planVars, loadVars, runVars>>

\* the payloads one step reports to Run (Test.Run): failures of the fuzz type
\* under test that are not yet in NewFailures and, unless the known failures
\* are being reproduced, not in OldFailuresMap
StepPayloads ==
    {<<>>} \cup
    {<<v>> : v \in {w \in Payloads :
                        /\ Matches(FuzzType, w)
                        /\ \A i \in 1..Len(NewFailures) :
                              FailKey(NewFailures[i]) # FailKey(w)
                        /\ (Repro \/ FailKey(w) \notin OldFailuresMap.keys)}}

\* one executed step of a suite, as far as the corpus is concerned
CollectFailures ==
    /\ corpusLog.phase = "open"
    /\ \E payloads \in StepPayloads :
        /\ Len(NewFailures) + Len(payloads) <= MaxNew
        /\ NewFailures' = AppendNewFailures(NewFailures, payloads)
    /\ corpusLog' = [corpusLog EXCEPT !.op = "Run", !.err = FALSE, !.prev = <<>>,
                        !.rt = "other"]
    /\ UNCHANGED <<mqFails, newFails, metaFile, OldFailuresMap, OtherFailures,
                   FuzzType, Repro>>
    /\ UNCHANGED <<paramVars, histVars, planVars, loadVars, runVars>>

\* a new process, once the one before has written its failures: a zero
\* TestPlan with the fuzz type and the mode of the command line, over the
\* files the runs before left
NewPlan ==
    /\ corpusLog.op = "WriteFailures"
    /\ \E ft \in FuzzTypes \cup {FuzzAll}, rp \in BOOLEAN :
        /\ FuzzType' = ft
        /\ Repro' = rp
    /\ OldFailuresMap' = [paths |-> {}, keys |-> {}]
    /\ OtherFailures' = <<>>
    /\ NewFailures' = <<>>
    /\ corpusLog' = [corpusLog EXCEPT !.op = "NewPlan", !.err = FALSE,
                        !.phase = "new", !.prev = <<>>, !.rt = "other"]
    /\ UNCHANGED <<mqFails, newFails, metaFile>>
    /\ UNCHANGED <<paramVars, histVars, planVars, loadVars, runVars>>

InitCorpus ==
    /\ mqFails = [exists |-> FALSE, lines |-> <<>>]
    /\ newFails = [exists |-> FALSE, lines |-> <<>>]
    /\ metaFile \in Metas
    /\ OldFailuresMap = [paths |-> {}, keys |-> {}]
    /\ OtherFailures = <<>>
    /\ NewFailures = <<>>
    /\ FuzzType \in FuzzTypes \cup {FuzzAll}
    /\ Repro \in BOOLEAN
    /\ corpusLog = [op |-> "NewPlan", err |-> FALSE, phase |-> "new",
                    prev |-> <<>>, rt |-> "other"]
    /\ ParamsIdle /\ HistIdle /\ PlanIdle /\ LoadIdle /\ RunIdle

NextCorpus == NewPlan \/ ReadFails \/ CollectFailures \/ WriteFailures

SpecCorpus == InitCorpus /\ [][NextCorpus]_vars

DecodeAll(lines) == [i \in 1..Len(lines) |-> Decode(lines[i])]

\* C3: after a successful WriteFailures, in Repro mode the cumulative file
\* holds none of its previous contents and exactly the OtherFailures records
\* in order followed by the NewFailures records in order; in Append mode it
\* holds its previous contents followed by the NewFailures records in order;
\* in both modes the new-failures file holds exactly the NewFailures records.
C3_WriteFailuresContents ==
    (corpusLog.op = "WriteFailures" /\ ~corpusLog.err) =>
        /\ newFails.exists /\ mqFails.exists
        /\ DecodeAll(newFails.lines) = NewFailures
        /\ IF Repro
           THEN DecodeAll(mqFails.lines) = OtherFailures \o NewFailures
           ELSE /\ Len(mqFails.lines) = Len(corpusLog.prev) + Len(NewFailures)
                /\ SubSeq(mqFails.lines, 1, Len(corpusLog.prev)) = corpusLog.prev
                /\ DecodeAll(SubSeq(mqFails.lines, Len(corpusLog.prev) + 1,
                                    Len(mqFails.lines))) = NewFailures

\* a Repro write that re-emits a failure of another fuzz type, adds a new
\* failure after it, and drops a line the file held before
C3_Witness ==
    /\ corpusLog.op = "WriteFailures"
    /\ Repro
    /\ Len(OtherFailures) >= 1
    /\ Len(NewFailures) >= 1
    /\ \E i \in 1..Len(corpusLog.prev) :
          \A j \in 1..Len(mqFails.lines) : mqFails.lines[j] # corpusLog.prev[i]

\* no record of a fuzz type the run did not exercise is lost by a write
NoOtherTypeLost ==
    corpusLog.op = "WriteFailures" =>
        \A i \in 1..Len(corpusLog.prev) :
            ~Matches(FuzzType, Decode(corpusLog.prev[i])) =>
                \E j \in 1..Len(mqFails.lines) : mqFails.lines[j] = corpusLog.prev[i]

\* no failure record occurs in the cumulative file more than once
NoDuplicateLine ==
    \A i, j \in 1..Len(mqFails.lines) :
        i # j => mqFails.lines[i] # mqFails.lines[j]

\* C4: across any sequence of runs (ReadFails, execution, WriteFailures, in
\* either mode, with repeated ReadFails or WriteFailures on the same plan) no
\* record of a fuzz type the run did not exercise is lost, and no failure
\* record occurs in the cumulative corpus file more than once.
C4_NoLossNoDuplicate == NoOtherTypeLost /\ NoDuplicateLine

----------------------------------------------------------------------------
(* SpecRoundTrip: WriteFailures in Append mode of a drawn list of failures *)
(* to an empty corpus, then ReadFails under the same FuzzType.             *)

RECURSIVE SeqsUpTo(_, _)
SeqsUpTo(S, n) ==
    IF n = 0 THEN {<<>>}
    ELSE LET shorter == SeqsUpTo(S, n - 1)
         IN shorter \cup {Append(q, x) : q \in shorter, x \in S}

InitRoundTrip ==
    /\ mqFails \in {[exists |-> e, lines |-> <<>>] : e \in BOOLEAN}
    /\ newFails = [exists |-> FALSE, lines |-> <<>>]
    /\ metaFile \in Metas
    /\ OldFailuresMap = [paths |-> {}, keys |-> {}]
    /\ OtherFailures = <<>>
    /\ NewFailures \in SeqsUpTo(Payloads, MaxNew)
    /\ FuzzType \in FuzzTypes \cup {FuzzAll}
    /\ Repro = FALSE
    /\ corpusLog = [op |-> "none", err |-> FALSE, phase |-> "open",
                    prev |-> <<>>, rt |-> "init"]
    /\ ParamsIdle /\ HistIdle /\ PlanIdle /\ LoadIdle /\ RunIdle

NextRoundTrip == WriteFailures \/ ReadFails

SpecRoundTrip == InitRoundTrip /\ [][NextRoundTrip]_vars

\* the written records (NewFailures, as WriteFailures left them) that match
\* the configured fuzz type, and those that do not
MatchedWritten == {i \in 1..Len(NewFailures) : Matches(FuzzType, NewFailures[i])}
IsMismatch(v) == v.FuzzType # FuzzType /\ FuzzType # FuzzAll

\* C5: records written in Append mode to an empty cumulative file and read
\* back by ReadFails under the same FuzzType: every written record of the
\* configured type (every record under the wildcard) is in OldFailuresMap
\* under its endpoint, method, field and (value, fuzzType); every other
\* written record is in OtherFailures, unchanged and in written order; and
\* neither structure holds an entry that was not written.
C5_RoundTrip ==
    corpusLog.rt = "read" =>
        /\ OldFailuresMap.keys = {FailKey(NewFailures[i]) : i \in MatchedWritten}
        /\ \A i \in MatchedWritten : FailPath(NewFailures[i]) \in OldFailuresMap.paths
        /\ OldFailuresMap.paths \subseteq
              {FailPath(NewFailures[i]) : i \in 1..Len(NewFailures)}
        /\ OtherFailures = SelectSeq(NewFailures, IsMismatch)

\* a round trip of two records, one of the configured type and one of
\* another, with metadata attached by the write
C5_Witness ==
    /\ corpusLog.rt = "read"
    /\ Len(NewFailures) = 2
    /\ Len(OtherFailures) = 1
    /\ OtherFailures[1].Meta = "m1"
    /\ Cardinality(OldFailuresMap.keys) = 1

----------------------------------------------------------------------------
(* The plan loader.  A chunk decodes to a map from suite name to a list of *)
(* Test declarations, or fails to decode.  A TestSuite lives at an address *)
(* of the heap; SuiteMap and SuiteList hold addresses.                     *)

MaxLoads == 2
MaxChunks == 2

\* a Test declaration
MkTest(name, ref, method, params, strict) ==
    [Name |-> name, Ref |-> ref, Method |-> method, TestParams |-> params,
     Strict |-> strict]

InitTestA ==
    MkTest("defaultsA", "", "",
           [NoParams EXCEPT !.QueryParams = [k \in {"k1"} |-> 1],
                            !.FormParams = [k \in {"k1"} |-> 1],
                            !.BodyParams = MapBody([k \in {"k1"} |-> 1])],
           TRUE)
InitTestB ==
    MkTest("defaultsB", "", "",
           [NoParams EXCEPT !.QueryParams = [k \in {"k1", "k2"} |-> 2],
                            !.BodyParams = ValBody("s1")],
           FALSE)
GetTestDecl == MkTest("get", "", "get", NoParams, FALSE)

\* the suites a chunk may declare, and the test lists of each
ChunkSuiteLists ==
    [n \in {MeqaInit, "s1", "s2"} |->
        IF n = MeqaInit
        THEN {<<InitTestA>>, <<InitTestA, InitTestB>>}
        ELSE {<<GetTestDecl>>}]

\* the orders in which a range loop may visit the keys of a Go map
Orders(S) ==
    {f \in [1..Cardinality(S) -> S] : \A i, j \in 1..Cardinality(S) : f[i] = f[j] => i = j}

\* the maps from suite name to test list a chunk may decode to
ChunkMaps ==
    UNION {{g \in [D -> UNION {ChunkSuiteLists[n] : n \in D}] :
                \A n \in D : g[n] \in ChunkSuiteLists[n]} :
           D \in SUBSET {MeqaInit, "s1", "s2"}}

\* a chunk yaml.Unmarshal rejects, or a decoded chunk together with the
\* order in which the range loop of AddFromString visits its suites
Chunks ==
    {[ok |-> FALSE, suites |-> EmptyMap, order |-> <<>>]} \cup
    UNION {{[ok |-> TRUE, suites |-> f, order |-> o] : o \in Orders(DOMAIN f)} :
           f \in ChunkMaps}

\* the part of a TestPlan the loader works on
PlanState ==
    [heap |-> heap, SuiteMap |-> SuiteMap, SuiteList |-> SuiteList,
     params |-> planParams, strict |-> planStrict, err |-> "nil"]

\* CreateTestSuite
CreateTestSuite(name, tests, st) ==
    [Name |-> name, Tests |-> tests, TestParams |-> Copy(NoParams, st.params),
     Strict |-> st.strict, db |-> "nil"]

\* TestPlan.Add as it would be without the test of line 141
PlanAddNoCheck(st, testSuite) ==
    LET addr == Len(st.heap) + 1
    IN [st EXCEPT !.heap = Append(@, testSuite),
                  !.SuiteMap = [n \in (DOMAIN @) \cup {testSuite.Name} |->
                                   IF n = testSuite.Name THEN addr ELSE @[n]],
                  !.SuiteList = Append(@, addr)]

\* TestPlan.Add
PlanAdd(st, testSuite) ==
    IF testSuite.Name \in DOMAIN st.SuiteMap
    THEN [st EXCEPT !.err = "duplicate"]
    ELSE LET addr == Len(st.heap) + 1
         IN [st EXCEPT !.heap = Append(@, testSuite),
                       !.SuiteMap = [n \in (DOMAIN @) \cup {testSuite.Name} |->
                                        IF n = testSuite.Name THEN addr ELSE @[n]],
                       !.SuiteList = Append(@, addr)]

\* the loop over the tests of meqa_init as it would be if it applied the
\* last test only
RECURSIVE ApplyInitLast(_, _, _)
ApplyInitLast(st, tests, i) ==
    IF tests = <<>> THEN st
    ELSE [st EXCEPT !.params = Copy(@, tests[Len(tests)].TestParams),
                    !.strict = tests[Len(tests)].Strict]

\* AddFromString, lines 163-167: the tests of meqa_init from index i on
RECURSIVE ApplyInit(_, _, _)
ApplyInit(st, tests, i) ==
    IF i > Len(tests) THEN st
    ELSE ApplyInit([st EXCEPT !.params = Copy(@, tests[i].TestParams),
                              !.strict = tests[i].Strict],
                   tests, i + 1)

\* AddFromString, lines 160-179: the suites of the chunk in the order the
\* range loop visits them, from position i on
RECURSIVE SuiteLoop(_, _, _)
SuiteLoop(chunk, i, st) ==
    IF i > Len(chunk.order) THEN st
    ELSE LET name == chunk.order[i]
             tests == chunk.suites[name]
         IN IF name = MeqaInit
            THEN SuiteLoop(chunk, i + 1, ApplyInit(st, tests, 1))
            ELSE LET added == PlanAdd(st, CreateTestSuite(name, tests, st))
                 IN IF added.err # "nil" THEN added
                    ELSE SuiteLoop(chunk, i + 1, added)

\* TestPlan.AddFromString: the plan and the error returned
AddFromString(chunk, st) ==
    IF ~chunk.ok THEN [st EXCEPT !.err = "parse"]
    ELSE SuiteLoop(chunk, 1, [st EXCEPT !.err = "nil"])

\* InitFromFile, lines 193-195: the chunks from index i on; the error each
\* AddFromString returns is dropped by the code and kept here in errs
RECURSIVE ChunkLoop(_, _, _, _)
ChunkLoop(chunks, i, st, errs) ==
    IF i > Len(chunks) THEN [st |-> st, errs |-> errs]
    ELSE LET after == AddFromString(chunks[i], st)
         IN ChunkLoop(chunks, i + 1, after, Append(errs, after.err))

\* TestPlan.Init
PlanInit(st) == [st EXCEPT !.heap = <<>>, !.SuiteMap = EmptyMap, !.SuiteList = <<>>]

Store(st) ==
    /\ heap' = st.heap
    /\ SuiteMap' = st.SuiteMap
    /\ SuiteList' = st.SuiteList
    /\ planParams' = st.params
    /\ planStrict' = st.strict

\* the tests a chunk declares under meqa_init
InitTestsOf(chunk) ==
    IF MeqaInit \in DOMAIN chunk.suites THEN chunk.suites[MeqaInit] ELSE <<>>

\* a call of TestPlan.AddFromString
DoAddFromString ==
    /\ loadLog.n < MaxLoads
    /\ \E chunk \in Chunks :
        LET after == AddFromString(chunk, PlanState)
        IN /\ Store(after)
           /\ loadLog' = [op |-> "AddFromString", n |-> loadLog.n + 1,
                          initTests |-> InitTestsOf(chunk),
                          prevParams |-> planParams,
                          errs |-> <<after.err>>, err |-> after.err]
    /\ UNCHANGED <<paramVars, histVars, corpusVars, runVars>>

\* the call of TestPlan.InitFromFile, on a file of chunks that can be read
DoInitFromFile ==
    /\ loadLog.n = 0
    /\ \E chunks \in SeqsUpTo(Chunks, MaxChunks) :
        LET done == ChunkLoop(chunks, 1, PlanInit(PlanState), <<>>)
        IN /\ Store(done.st)
           /\ loadLog' = [op |-> "InitFromFile", n |-> loadLog.n + 1,
                          initTests |-> <<>>, prevParams |-> planParams,
                          errs |-> done.errs, err |-> "nil"]
    /\ resultList' = <<>>
    /\ UNCHANGED <<paramVars, histVars, corpusVars, stack, ret, runs>>

\* InitFromFile on a file that cannot be read: Init, then the error
DoInitFromFileUnreadable ==
    /\ loadLog.n = 0
    /\ Store(PlanInit(PlanState))
    /\ loadLog' = [op |-> "InitFromFile", n |-> loadLog.n + 1,
                   initTests |-> <<>>, prevParams |-> planParams,
                   errs |-> <<>>, err |-> "io"]
    /\ resultList' = <<>>
    /\ UNCHANGED <<paramVars, histVars, corpusVars, stack, ret, runs>>

\* the defaults a plan may hold before the load
PriorDefaults == {NoParams, [NoParams EXCEPT !.QueryParams = [k \in {"k2"} |-> 1],
                                             !.BodyParams = MapBody([k \in {"k2"} |-> 1])]}

InitLoad ==
    /\ heap = <<>>
    /\ SuiteMap = EmptyMap
    /\ SuiteList = <<>>
    /\ planParams \in PriorDefaults
    /\ planStrict \in BOOLEAN
    /\ loadLog = [op |-> "none", n |-> 0, initTests |-> <<>>,
                  prevParams |-> NoParams, errs |-> <<>>, err |-> "nil"]
    /\ ParamsIdle /\ HistIdle /\ CorpusIdle /\ RunIdle

NextLoad == DoAddFromString \/ DoInitFromFile \/ DoInitFromFileUnreadable

SpecLoad == InitLoad /\ [][NextLoad]_vars

\* the defaults after Copy of the TestParams of each test, in declaration order
RECURSIVE CopiedInOrder(_, _, _)
CopiedInOrder(p, tests, i) ==
    IF i > Len(tests) THEN p
    ELSE CopiedInOrder(Copy(p, tests[i].TestParams), tests, i + 1)

NoInitSuite ==
    /\ MeqaInit \notin DOMAIN SuiteMap
    /\ \A i \in 1..Len(SuiteList) : heap[SuiteList[i]].Name # MeqaInit

\* C9: after loading any chunk with AddFromString no suite named meqa_init is
\* registered in SuiteMap or SuiteList, and the plan's default TestParams
\* equal the result of applying Copy, in declaration order, of the TestParams
\* of every test declared under meqa_init onto the plan's previous defaults.
C9_InitDefaultsAfterAnyLoad ==
    /\ NoInitSuite
    /\ loadLog.op = "AddFromString" =>
          planParams = CopiedInOrder(loadLog.prevParams, loadLog.initTests, 1)

\* C9 as amended: no suite named meqa_init is ever registered, and after every
\* AddFromString that returns nil the plan's default TestParams equal the
\* result of applying Copy, in declaration order, of the TestParams of every
\* test the chunk declares under meqa_init onto the defaults before the call.
C9_InitDefaultsAfterLoad ==
    /\ NoInitSuite
    /\ (loadLog.op = "AddFromString" /\ loadLog.err = "nil") =>
          planParams = CopiedInOrder(loadLog.prevParams, loadLog.initTests, 1)

\* a successful load of a chunk that declares two tests under meqa_init and
\* a suite, onto defaults that the tests change
C9_Witness ==
    /\ loadLog.op = "AddFromString"
    /\ loadLog.err = "nil"
    /\ Len(loadLog.initTests) = 2
    /\ loadLog.prevParams # NoParams
    /\ planParams # loadLog.prevParams
    /\ Len(SuiteList) >= 1
    /\ heap[SuiteList[Len(SuiteList)]].TestParams = planParams

\* C10: InitFromFile fails whenever loading one of its chunks fails: it
\* returns the error of the failing chunk (duplicate name or parse error) and
\* loads no chunk after the failing one.
C10_LoadAbortsOnChunkError ==
    loadLog.op = "InitFromFile" =>
        \A i \in 1..Len(loadLog.errs) :
            loadLog.errs[i] # "nil" =>
                /\ loadLog.err = loadLog.errs[i]
                /\ Len(loadLog.errs) = i

----------------------------------------------------------------------------
(* TestPlan.Run.  A call of Run is a frame of the stack; the delegated     *)
(* execution of a step (Test.Run: the HTTP call and the validation) is a   *)
(* step of its own, whose result is drawn from StepOutcomes.               *)

MaxTests == 3
MaxDepth == 3
MaxSteps == 3
MaxRuns == 1

\* mqswag.MethodPost
MethodPost == "post"
\* the status from which the cascading skip fires (line 478)
SkipStatus == 300

NoErr == [kind |-> "nil", at |-> 0]
\* the error returned by the execution of the step dispatched as number id
StepErr(id) == [kind |-> "step", at |-> id]
\* errors.New("The following test suite is not found: ...")
NotFoundErr == [kind |-> "notfound", at |-> 0]

\* the counters: a Go map from category to int, a missing key reading 0
Count(c, k) == IF k \in DOMAIN c THEN c[k] ELSE 0
\* the update of a counter as it would be if it always added one
IncByOne(c, k, d) ==
    [x \in (DOMAIN c) \cup {k} |-> IF x = k THEN Count(c, k) + 1 ELSE c[x]]
Inc(c, k, d) == [x \in (DOMAIN c) \cup {k} |-> IF x = k THEN Count(c, k) + d ELSE c[x]]

PostTest == MkTest("create", "", MethodPost, NoParams, FALSE)
PostPathTest ==
    MkTest("update", "", MethodPost,
           [NoParams EXCEPT !.PathParams = [k \in {"id"} |-> 1]], FALSE)
GetStepTest == MkTest("read", "", "get", NoParams, FALSE)
RefS1Test == MkTest("again", "s1", "", NoParams, FALSE)
RefS2Test == MkTest("sub", "s2", "", NoParams, FALSE)
InitStepTest ==
    MkTest(MeqaInit, "", "", [NoParams EXCEPT !.QueryParams = [k \in {"k1"} |-> 1]], FALSE)

\* the tests suite s1 is made of, and the test lists of suite s2
S1Tests == {PostTest, PostPathTest, GetStepTest, RefS2Test, InitStepTest}
S2Lists == {<<>>, <<GetStepTest>>, <<PostTest>>, <<RefS1Test>>}

\* the names Run is called with
RunNames == {"s1", "s2", "missing"}

\* what the execution of one step returns: the response status, whether an
\* error is returned, whether a schema error is recorded, and the payloads
MkOutcome(status, failed, schema, payloads) ==
    [status |-> status, failed |-> failed, schemaError |-> schema, payloads |-> payloads]
OnePayload ==
    <<[Endpoint |-> "/pets", Method |-> "post", Field |-> "name", Value |-> "v1",
       FuzzType |-> "t1", Meta |-> "nil"]>>
\* every status class with and without an error, and a schema mismatch with
\* a fuzz failure, for a creation call; fewer for the other steps
StepOutcomes(dup) ==
    IF dup.Method = MethodPost /\ DOMAIN dup.TestParams.PathParams = {}
    THEN {MkOutcome(st, f, FALSE, <<>>) : st \in {200, 302, 404}, f \in BOOLEAN}
            \cup {MkOutcome(200, FALSE, TRUE, OnePayload)}
    ELSE {MkOutcome(200, FALSE, FALSE, <<>>), MkOutcome(404, TRUE, FALSE, <<>>)}

\* the suite a frame runs, and the test it is at
Top == stack[Len(stack)]
SuiteOf(f) == heap[f.tc]
TestAt(f) == heap[f.tc].Tests[f.i]

\* the test of line 416 as it would be without len(tc.Tests) == 0
FoundByName(name) == name \in DOMAIN SuiteMap

\* Run, lines 414-420: whether the suite exists and has tests
Found(name) == name \in DOMAIN SuiteMap /\ Len(heap[SuiteMap[name]].Tests) > 0

\* Run, lines 421-427: the frame of a call of Run at the given stack depth
NewFrame(name, parent, depth) ==
    [name |-> name, tc |-> SuiteMap[name], i |-> 1,
     resultCounts |-> Inc(Inc(EmptyMap, "Total", Len(heap[SuiteMap[name]].Tests)),
                          "Failed", 0),
     tcErr |-> NoErr, parent |-> parent, pc |-> "loop", dup |-> NilTest,
     retCounts |-> EmptyMap, retErr |-> NoErr, via |-> "none",
     clone |-> depth, firstFail |-> NoErr, log |-> <<>>]

\* the frame as it returns counts and err
Returning(f, counts, err, via) ==
    [f EXCEPT !.pc = "ret", !.retCounts = counts, !.retErr = err, !.via = via]

\* the loop of line 428 as it would be if it stayed at the same test
AdvanceRepeat(f) == [f EXCEPT !.pc = "loop"]

\* the next iteration of the loop of line 428, or the return of line 484
Advance(f) ==
    IF f.i + 1 > Len(heap[f.tc].Tests)
    THEN Returning(f, f.resultCounts, f.tcErr, "end")
    ELSE [f EXCEPT !.i = f.i + 1, !.pc = "loop"]

ReplaceTop(f) == [stack EXCEPT ![Len(stack)] = f]

\* the declared test a frame was called for: nil for a top-level call
ParentOf(f) == IF f.parent = <<>> THEN NilTest ELSE heap[f.parent[1]].Tests[f.parent[2]]

\* Test.SchemaDuplicate: a copy of the declaration
SchemaDuplicate(test) == test

\* Test.CopyParent: the parent's Strict and the parent's parameters, where
\* the duplicate has none of its own
CopyParent(dup, parent) ==
    [dup EXCEPT !.Strict = parent.Strict,
                !.TestParams = Add(dup.TestParams, parent.TestParams)]

\* Run, lines 414-420, called from outside on a name that is not a suite
\* with tests
RunNotFound ==
    /\ stack = <<>>
    /\ \E name \in RunNames :
        /\ ~Found(name)
        /\ ret' = [set |-> TRUE, name |-> name, counts |-> EmptyMap,
                   err |-> NotFoundErr, via |-> "notfound", firstFail |-> NotFoundErr]
    /\ UNCHANGED <<runs, stack, resultList, History, got, planVars, NewFailures>>
    /\ UNCHANGED <<paramVars, loadVars, mqFails, newFails, metaFile, OldFailuresMap,
                   OtherFailures, FuzzType, Repro, corpusLog>>

\* Run, lines 414-427, called from outside on a suite with tests
RunEnter ==
    /\ stack = <<>>
    /\ runs < MaxRuns
    /\ \E name \in RunNames :
        /\ Found(name)
        /\ stack' = <<NewFrame(name, <<>>, 1)>>
        /\ heap' = [heap EXCEPT ![SuiteMap[name]].db = 1]
    /\ ret' = NoRet
    /\ runs' = runs + 1
    /\ UNCHANGED <<resultList, History, got, SuiteMap, SuiteList, planParams,
                   planStrict, NewFailures>>
    /\ UNCHANGED <<paramVars, loadVars, mqFails, newFails, metaFile, OldFailuresMap,
                   OtherFailures, FuzzType, Repro, corpusLog>>

otherVars == <<paramVars, loadVars, mqFails, newFails, metaFile, OldFailuresMap,
               OtherFailures, FuzzType, Repro, corpusLog>>

\* line 430 as it would be if it wrote the Strict of every test of the suite
MarkStrictAll(h, tc, i) ==
    [h EXCEPT ![tc].Tests = [j \in 1..Len(@) |-> [@[j] EXCEPT !.Strict = h[tc].Strict]]]

\* Run, line 430: test.Strict = tc.Strict, a write to the declared test
MarkStrict(h, tc, i) == [h EXCEPT ![tc].Tests[i].Strict = h[tc].Strict]

\* Run, lines 429-436: a Reference step
StepRef ==
    /\ stack # <<>>
    /\ Top.pc = "loop"
    /\ TestAt(Top).Ref # ""
    /\ LET f == Top
           test == TestAt(f)
           \* test.Strict = tc.Strict
           marked == MarkStrict(heap, f.tc, f.i)
       IN IF ~Found(test.Ref)
          THEN \* the recursive Run returns the not-found error: return resultCounts, err
               /\ heap' = marked
               /\ stack' = ReplaceTop(
                     [Returning(f, EmptyMap, NotFoundErr, "ref") EXCEPT
                        !.firstFail = IF @ = NoErr THEN NotFoundErr ELSE @])
          ELSE /\ Len(stack) < MaxDepth
               /\ heap' = [marked EXCEPT ![SuiteMap[test.Ref]].db = Len(stack) + 1]
               /\ stack' = Append(ReplaceTop([f EXCEPT !.pc = "call"]),
                                  NewFrame(test.Ref, <<f.tc, f.i>>, Len(stack) + 1))
    /\ UNCHANGED <<runs, ret, resultList, History, got, SuiteMap, SuiteList,
                   planParams, planStrict, NewFailures>>
    /\ UNCHANGED otherVars

\* Run, lines 438-443: a test named meqa_init
StepInit ==
    /\ stack # <<>>
    /\ Top.pc = "loop"
    /\ TestAt(Top).Ref = ""
    /\ TestAt(Top).Name = MeqaInit
    /\ heap' = [heap EXCEPT ![Top.tc].TestParams = Copy(@, TestAt(Top).TestParams),
                            ![Top.tc].Strict = TestAt(Top).Strict]
    /\ stack' = ReplaceTop(Advance(Top))
    /\ UNCHANGED <<runs, ret, resultList, History, got, SuiteMap, SuiteList,
                   planParams, planStrict, NewFailures>>
    /\ UNCHANGED otherVars

\* the instances resolution would consult if line 451 came before line 450
HistorySeenAfterAppend(hist) == Len(hist) + 1

\* Run, line 450: the instances of History that ResolveHistoryParameters can
\* consult, History being read before the append of line 451
HistorySeen(hist) == Len(hist)

\* Run, lines 445-454: the duplicate of a concrete step, resolved against
\* History and appended to it, up to the call of dup.Run
StepDispatch ==
    /\ stack # <<>>
    /\ Top.pc = "loop"
    /\ TestAt(Top).Ref = ""
    /\ TestAt(Top).Name # MeqaInit
    /\ Len(History) < MaxSteps
    /\ LET f == Top
           parent == ParentOf(f)
           dup0 == [SchemaDuplicate(TestAt(f)) EXCEPT !.Strict = heap[f.tc].Strict]
           dup1 == IF parent # NilTest THEN CopyParent(dup0, parent) ELSE dup0
           \* dup.ResolveHistoryParameters(&History): History as the duplicate sees it
           seen == HistorySeen(History)
           dup2 == IF parent # NilTest THEN [dup1 EXCEPT !.Name = parent.Name] ELSE dup1
           inst == [Name |-> dup2.Name, id |-> Len(History) + 1, Method |-> dup2.Method,
                    TestParams |-> dup2.TestParams, Strict |-> dup2.Strict,
                    src |-> <<f.tc, f.i>>, depth |-> Len(stack), resolvedAt |-> seen,
                    done |-> FALSE, err |-> NoErr, status |-> 0, schemaError |-> FALSE,
                    db |-> 0]
       IN /\ History' = HistoryAppend(History, inst)
          /\ stack' = ReplaceTop([f EXCEPT !.pc = "exec", !.dup = inst])
    /\ UNCHANGED <<runs, ret, resultList, got, planVars, NewFailures>>
    /\ UNCHANGED otherVars

\* the test of line 478 as it would be if only 5xx responses counted
SkipsRestServerError(dup) ==
    dup.Method = MethodPost /\ DOMAIN dup.TestParams.PathParams = {} /\ dup.status >= 500

\* Run, line 478: the cascading-skip test
SkipsRest(dup) ==
    dup.Method = MethodPost /\ DOMAIN dup.TestParams.PathParams = {}
        /\ dup.status >= SkipStatus

\* Run, lines 468-473: the error kept as tcErr
KeepErr(tcErr, err) == IF err # NoErr /\ tcErr = NoErr THEN err ELSE tcErr

\* Run, lines 455-482: the return of dup.Run, the classification of the step
\* and the cascading skip
StepExecute ==
    /\ stack # <<>>
    /\ Top.pc = "exec"
    /\ \E o \in StepOutcomes(Top.dup) :
        LET f == Top
            err == IF o.failed THEN StepErr(f.dup.id) ELSE NoErr
            dup == [f.dup EXCEPT !.done = TRUE, !.err = err, !.status = o.status,
                                 !.schemaError = o.schemaError, !.db = heap[f.tc].db]
            c1 == IF o.schemaError THEN Inc(f.resultCounts, "SchemaMismatch", 1)
                  ELSE f.resultCounts
            c2 == IF err # NoErr THEN Inc(c1, "Failed", 1) ELSE Inc(c1, "Passed", 1)
            n == Len(heap[f.tc].Tests)
            g == [f EXCEPT !.resultCounts = c2, !.tcErr = KeepErr(f.tcErr, err),
                           !.firstFail = IF @ = NoErr THEN err ELSE @,
                           !.dup = dup,
                           !.log = Append(@, [i |-> f.i, id |-> dup.id,
                                              skip |-> SkipsRest(dup)])]
        IN /\ Len(NewFailures) + Len(o.payloads) <= MaxNew
           /\ NewFailures' = AppendNewFailures(NewFailures, o.payloads)
           /\ History' = [History EXCEPT ![dup.id] = dup]
           /\ resultList' = Append(resultList, dup)
           /\ stack' = ReplaceTop(
                 IF SkipsRest(dup)
                 THEN LET c3 == Inc(c2, "Skipped", n - f.i)
                      IN Returning([g EXCEPT !.resultCounts = c3], c3, g.tcErr, "skip")
                 ELSE Advance(g))
    /\ UNCHANGED <<runs, ret, got, planVars>>
    /\ UNCHANGED otherVars

\* the return of a frame: the deferred tc.db = nil, then the caller's lines
\* 431-435, or the return to the outside
Return ==
    /\ stack # <<>>
    /\ Top.pc = "ret"
    /\ heap' = [heap EXCEPT ![Top.tc].db = 0]
    /\ IF Len(stack) = 1
       THEN /\ stack' = <<>>
            /\ ret' = [set |-> TRUE, name |-> Top.name, counts |-> Top.retCounts,
                       err |-> Top.retErr, via |-> Top.via, firstFail |-> Top.firstFail]
       ELSE LET callee == Top
                caller == stack[Len(stack) - 1]
                merged == [caller EXCEPT
                              !.firstFail = IF @ = NoErr THEN callee.firstFail ELSE @]
            IN /\ stack' = Append(SubSeq(stack, 1, Len(stack) - 2),
                                  IF callee.retErr # NoErr
                                  THEN Returning(merged, callee.retCounts,
                                                 callee.retErr, "ref")
                                  ELSE Advance(merged))
               /\ ret' = ret
    /\ UNCHANGED <<runs, resultList, History, got, SuiteMap, SuiteList, planParams,
                   planStrict, NewFailures>>
    /\ UNCHANGED otherVars

\* a suite as the loader registers it
MkSuite(name, tests, strict) ==
    [Name |-> name, Tests |-> tests, TestParams |-> NoParams, Strict |-> strict,
     db |-> 0]

\* the test lists of suite s1: a meqa_init test, when there is one, is declared
\* first
S1Lists ==
    {t \in SeqsUpTo(S1Tests, MaxTests) \ {<<>>} :
        \A i \in 2..Len(t) : t[i] # InitStepTest}

\* a loaded plan of two suites, before the first Run
Init ==
    /\ \E t1 \in S1Lists, t2 \in S2Lists :
        heap = <<MkSuite("s1", t1, TRUE), MkSuite("s2", t2, FALSE)>>
    /\ SuiteMap = [n \in {"s1", "s2"} |-> IF n = "s1" THEN 1 ELSE 2]
    /\ SuiteList = <<1, 2>>
    /\ planParams = NoParams
    /\ planStrict = FALSE
    /\ History = <<>> /\ got = [op |-> "none"]
    /\ stack = <<>> /\ resultList = <<>> /\ ret = NoRet /\ runs = 0
    /\ ParamsIdle /\ LoadIdle /\ CorpusIdle

Next == RunNotFound \/ RunEnter \/ StepRef \/ StepInit \/ StepDispatch
            \/ StepExecute \/ Return

Spec == Init /\ [][Next]_vars

\* a suite of concrete steps only: no Reference test and no meqa_init test
AllConcrete(tc) ==
    \A j \in 1..Len(heap[tc].Tests) :
        heap[tc].Tests[j].Ref = "" /\ heap[tc].Tests[j].Name # MeqaInit

\* the step of a log entry was a POST with no path parameters answered with
\* a 4xx or 5xx status
ClientOrServerError(e) ==
    LET d == History[e.id]
    IN d.Method = MethodPost /\ DOMAIN d.TestParams.PathParams = {} /\ d.status >= 400

\* the first entry of the log of a frame that is such a step
FirstError(f, x) ==
    /\ ClientOrServerError(f.log[x])
    /\ \A y \in 1..(x - 1) : ~ClientOrServerError(f.log[y])

\* C1: in a frame that runs a suite of N concrete steps, once step k
\* (0-indexed, f.log[x].i - 1) is the first POST without path parameters
\* answered with a 4xx/5xx status, Run returns with Skipped = N-k-1, no later
\* step is dispatched (History and the result list end with step k) and
\* Passed + Failed counts the steps up to k only.
C1_CascadingSkip ==
    \A d \in 1..Len(stack) :
        LET f == stack[d]
            n == Len(heap[f.tc].Tests)
        IN AllConcrete(f.tc) =>
            \A x \in 1..Len(f.log) :
                FirstError(f, x) =>
                    /\ f.pc = "ret"
                    /\ Count(f.retCounts, "Skipped") = n - f.log[x].i
                    /\ Len(f.log) = x
                    /\ f.log[x].i = x
                    /\ Len(History) = f.log[x].id
                    /\ resultList[Len(resultList)].id = f.log[x].id
                    /\ Count(f.retCounts, "Passed") + Count(f.retCounts, "Failed") = x

\* a suite of three concrete steps whose second step is the first creation
\* call answered with 404, after a creation call that succeeded: one test is
\* skipped
C1_Witness ==
    /\ stack # <<>>
    /\ AllConcrete(Top.tc)
    /\ Len(heap[Top.tc].Tests) = 3
    /\ Len(Top.log) = 2
    /\ FirstError(Top, 2)
    /\ History[Top.log[1].id].Method = MethodPost
    /\ History[Top.log[2].id].status = 404
    /\ Top.pc = "ret"
    /\ Count(Top.retCounts, "Skipped") = 1

\* C2: the error Run returns is the error of the first step that failed in
\* execution order during the invocation (steps reached through Reference
\* steps included), and nil if none failed.  Returns of the suite-not-found
\* error of a Reference to a missing suite are left aside: what is stated is
\* that no error of a later step replaces the error of an earlier one.
C2_FirstErrorReturned ==
    \A d \in 1..Len(stack) :
        (stack[d].pc = "ret" /\ stack[d].retErr # NotFoundErr) =>
            stack[d].retErr = stack[d].firstFail

\* the name is not a suite of the plan, or is a suite with no tests
Missing(n) == n \notin DOMAIN SuiteMap \/ heap[SuiteMap[n]].Tests = <<>>

\* this step is a call of Run on n from outside
CalledOutside(n) ==
    /\ stack = <<>>
    /\ \/ stack' # <<>> /\ stack'[1].name = n
       \/ stack' = <<>> /\ ret' # ret /\ ret'.set /\ ret'.name = n

\* this step is the recursive call of Run on n at a Reference step
CalledAtRef(n) ==
    /\ stack # <<>>
    /\ Top.pc = "loop"
    /\ TestAt(Top).Ref = n

\* nothing Run works on changes in this step: History, the result list,
\* NewFailures, the schema clone and the defaults of every suite
NoSideEffect ==
    /\ UNCHANGED <<History, resultList, NewFailures, SuiteMap, SuiteList,
                   planParams, planStrict>>
    /\ Len(heap') = Len(heap)
    /\ \A a \in 1..Len(heap) :
            /\ heap'[a].db = heap[a].db
            /\ heap'[a].TestParams = heap[a].TestParams
            /\ heap'[a].Strict = heap[a].Strict

\* C12: a call of Run on a name that is not in the plan, or that names a
\* suite with no tests, returns the suite-not-found error and empty
\* counters at once (no frame is entered) and changes neither History, the
\* result list, NewFailures, a schema clone nor the defaults of a suite;
\* from outside and at a Reference step.
C12_NotFoundNoSideEffect ==
    [][\A n \in RunNames :
          /\ (Missing(n) /\ CalledOutside(n)) =>
                /\ stack' = <<>>
                /\ ret'.err = NotFoundErr
                /\ ret'.counts = EmptyMap
                /\ NoSideEffect
          /\ (Missing(n) /\ CalledAtRef(n)) =>
                /\ Len(stack') = Len(stack)
                /\ stack'[Len(stack)].pc = "ret"
                /\ stack'[Len(stack)].retErr = NotFoundErr
                /\ stack'[Len(stack)].retCounts = EmptyMap
                /\ NoSideEffect]_vars

\* Run called on the suite s2, which has no tests, after a run that
\* dispatched a step
C12_Witness ==
    /\ ret.set
    /\ ret.name = "s2"
    /\ heap[SuiteMap["s2"]].Tests = <<>>
    /\ ret.err = NotFoundErr
    /\ ret.counts = EmptyMap
    /\ Len(History) >= 1
    /\ stack = <<>>

\* this step is the return of a recursive Run, without error, to the
\* Reference step that called it
RefReturnsNil ==
    /\ Len(stack) > 1
    /\ Top.pc = "ret"
    /\ Top.retErr = NoErr
    /\ Len(stack') = Len(stack) - 1

\* C13: when the recursive Run of a Reference step returns without error,
\* the counters it returns replace the counters of the calling suite: from
\* then on the caller's resultCounts are the counters of the referenced
\* suite's run, and the caller's own counters are discarded.
C13_RefCountersReplace ==
    [][RefReturnsNil => stack'[Len(stack')].resultCounts = Top.retCounts]_vars

\* this step is the return of a recursive Run to the Reference step that
\* called it
RefReturns ==
    /\ Len(stack) > 1
    /\ Top.pc = "ret"
    /\ Len(stack') = Len(stack) - 1

\* no instance of History or of the result list was made from a Reference
\* test
RefNeverDispatched ==
    /\ \A h \in 1..Len(History) :
            heap[History[h].src[1]].Tests[History[h].src[2]].Ref = ""
    /\ \A h \in 1..Len(resultList) :
            heap[resultList[h].src[1]].Tests[resultList[h].src[2]].Ref = ""

\* C14: a Reference step never ends the iteration of the calling suite:
\* when the recursive Run returns, with or without an error, the caller goes
\* on with the test after the Reference step (or returns at the end of its
\* list when the Reference step was its last test), and the Reference test
\* itself is never dispatched.
C14_RefContinues ==
    [][RefReturns =>
          LET caller == stack[Len(stack) - 1]
              after == stack'[Len(stack')]
          IN /\ IF caller.i < Len(heap[caller.tc].Tests)
                THEN after.pc = "loop" /\ after.i = caller.i + 1
                ELSE after.pc = "ret" /\ after.via = "end"
             /\ RefNeverDispatched']_vars

\* C15: the cascading skip fires after a step exactly when the step was a
\* POST with no path parameters answered with a 4xx/5xx status; after a step
\* with another method, with path parameters or with a 2xx or 3xx status the
\* rest of the suite is not skipped.
C15_SkipExactlyOnClientOrServerError ==
    \A d \in 1..Len(stack) :
        \A x \in 1..Len(stack[d].log) :
            stack[d].log[x].skip <=> ClientOrServerError(stack[d].log[x])

\* C16 as stated: Run never mutates a declared Test: every field of every
\* Test of every suite's Tests list keeps its value across every step of Run.
C16_DeclaredTestsNeverMutated ==
    [][\A a \in 1..Len(heap) : heap'[a].Tests = heap[a].Tests]_vars

\* C16: the only write Run makes to a declared Test is to the Strict flag of
\* the Reference test it is at, which takes the Strict of the running suite;
\* every other field of that test and every field of every other declared
\* test (every concrete test and every meqa_init test among them) keeps its
\* value across every step of Run.
C16_OnlyRefStrictWritten ==
    [][\A a \in 1..Len(heap) :
          /\ Len(heap'[a].Tests) = Len(heap[a].Tests)
          /\ \A j \in 1..Len(heap[a].Tests) :
                \/ heap'[a].Tests[j] = heap[a].Tests[j]
                \/ /\ stack # <<>> /\ Top.pc = "loop" /\ Top.tc = a /\ Top.i = j
                   /\ heap[a].Tests[j].Ref # ""
                   /\ heap'[a].Tests[j] =
                          [heap[a].Tests[j] EXCEPT !.Strict = heap[a].Strict]]_vars

\* a run of the strict suite s1 passed a Reference step, whose declared test
\* now carries Strict, and dispatched a concrete step of s1, whose declared
\* test still does not
C16_Witness ==
    /\ \E j \in 1..Len(heap[1].Tests) :
            heap[1].Tests[j].Ref # "" /\ heap[1].Tests[j].Strict
    /\ \E h \in 1..Len(History) :
            /\ History[h].src[1] = 1
            /\ History[h].done
            /\ History[h].Strict
            /\ ~heap[1].Tests[History[h].src[2]].Strict

\* C17: a concrete step is resolved against History, then appended to it,
\* then executed: the instance numbered h was resolved when History held the
\* h-1 instances dispatched before it (never itself); a step being executed
\* is already the last instance of History; History is in dispatch order
\* and every instance but the one being executed has run, in that order; and
\* a frame dispatches its steps in declaration order.
C17_ResolveAppendExecute ==
    /\ \A h \in 1..Len(History) :
            /\ History[h].id = h
            /\ History[h].resolvedAt = h - 1
            /\ h < Len(History) => History[h].done
    /\ \A d \in 1..Len(stack) :
            /\ stack[d].pc = "exec" =>
                    /\ d = Len(stack)
                    /\ History # <<>>
                    /\ History[Len(History)] = stack[d].dup
                    /\ ~stack[d].dup.done
            /\ \A x, y \in 1..Len(stack[d].log) :
                    x < y => /\ stack[d].log[x].i < stack[d].log[y].i
                             /\ stack[d].log[x].id < stack[d].log[y].id
    /\ resultList = SelectSeq(History, LAMBDA t : t.done)

\* the second step of a frame, reached through a Reference, waits for its
\* execution: it is in History after the first, which has run
C17_Witness ==
    /\ Len(stack) = 2
    /\ Top.pc = "exec"
    /\ Len(History) = 2
    /\ History[1].done
    /\ History[2] = Top.dup
    /\ Top.dup.resolvedAt = 1
    /\ resultList = <<History[1]>>

\* a suite no frame of which is on the stack holds no clone
NoCloneOutsideRun ==
    \A a \in 1..Len(heap) :
        (\A d \in 1..Len(stack) : stack[d].tc # a) => heap[a].db = 0

\* C18: the schema-store clone is scoped to one suite run: every concrete
\* step was executed while its suite held the clone made by the frame that
\* dispatched it (also after a nested Run returned), every frame that has
\* not returned yet finds its own clone in its suite when it executes a
\* step, and a suite whose frames have all returned holds no clone.
C18_CloneScopedToRun ==
    /\ \A h \in 1..Len(History) :
            History[h].done => History[h].db = History[h].depth
    /\ NoCloneOutsideRun

----------------------------------------------------------------------------
(* SpecTerm: one call of Run from outside on a drawn plan, every step of   *)
(* the interpreter eventually taken.  Run is sequential code and the       *)
(* delegated execution of a step is taken to return, hence the weak        *)
(* fairness of every step.                                                 *)

\* the first call of Run from outside
RunFirst == History = <<>> /\ RunEnter

NextTerm == RunFirst \/ StepRef \/ StepInit \/ StepDispatch \/ StepExecute \/ Return

SpecTerm == Init /\ [][NextTerm]_vars /\ WF_vars(NextTerm)

\* the Reference graph: the suites the tests of suite a refer to
RefsOf(a) ==
    {SuiteMap[heap[a].Tests[j].Ref] :
        j \in {k \in 1..Len(heap[a].Tests) :
                  heap[a].Tests[k].Ref # "" /\ Found(heap[a].Tests[k].Ref)}}

\* the suites reached from the suites of S along at most k edges
RECURSIVE ReachN(_, _)
ReachN(S, k) ==
    IF k = 0 THEN S ELSE ReachN(S \cup UNION {RefsOf(b) : b \in S}, k - 1)

Reach(a) == ReachN({a}, Len(heap))

\* a Reference cycle can be reached from suite a
CyclicFrom(a) == \E b \in Reach(a) : b \in ReachN(RefsOf(b), Len(heap))

\* a step that ended the iteration of its suite has been executed
SkipHappened == \E h \in 1..Len(History) : History[h].done /\ SkipsRest(History[h])

\* C19: a Run started on a suite from which no Reference cycle is reached
\* returns; a Run started on a suite from which a cycle is reached does not
\* return (no frame of it returns) as long as no step ended the iteration of
\* its suite.
C19_TerminatesIffAcyclic ==
    /\ (stack # <<>> /\ ~CyclicFrom(stack[1].tc)) ~> (stack = <<>> /\ ret.set)
    /\ [](\A d \in 1..Len(stack) :
            (CyclicFrom(stack[1].tc) /\ stack[d].pc = "ret") => SkipHappened)

\* a cycle between s1 and s2 followed as deep as the stack is allowed to
\* grow, every step executed on the way having passed
C19_Witness ==
    /\ Len(stack) = MaxDepth
    /\ CyclicFrom(stack[1].tc)
    /\ Top.pc = "loop"
    /\ TestAt(Top).Ref # ""
    /\ History # <<>>
    /\ ~SkipHappened
    /\ \A d \in 1..Len(stack) : stack[d].pc # "ret"

\* the Reference and meqa_init tests of suite tc at or before index i
NonConcreteUpTo(tc, i) ==
    Cardinality({j \in 1..i : heap[tc].Tests[j].Ref # ""
                                \/ heap[tc].Tests[j].Name = MeqaInit})

\* C20: a frame that returns at the end of its list or by the cascading skip
\* (not from a Reference step) returns Total = the number of declared tests
\* of the suite, Passed + Failed = the number of steps it dispatched, and
\* Passed + Failed + Skipped = Total minus the number of Reference and
\* meqa_init tests at or before the last processed index; for a suite of
\* concrete steps only, Passed + Failed + Skipped = Total.
C20_CounterAccounting ==
    \A d \in 1..Len(stack) :
        LET f == stack[d]
            n == Len(heap[f.tc].Tests)
            done == Count(f.retCounts, "Passed") + Count(f.retCounts, "Failed")
        IN (f.pc = "ret" /\ f.via \in {"end", "skip"}) =>
            /\ Count(f.retCounts, "Total") = n
            /\ done = Len(f.log)
            /\ done + Count(f.retCounts, "Skipped") = n - NonConcreteUpTo(f.tc, f.i)
            /\ AllConcrete(f.tc) => done + Count(f.retCounts, "Skipped") = n

\* a suite of three tests returns by the cascading skip at its second test,
\* after a Reference step: one step dispatched, one test skipped
C20_Witness ==
    /\ stack # <<>>
    /\ Top.pc = "ret"
    /\ Top.via = "skip"
    /\ Len(heap[Top.tc].Tests) = 3
    /\ Top.i = 2
    /\ heap[Top.tc].Tests[1].Ref # ""
    /\ Len(Top.log) = 1
    /\ Count(Top.retCounts, "Skipped") = 1
    /\ Count(Top.retCounts, "Total") = 3

----------------------------------------------------------------------------
(* SpecAdd: a sequence of TestPlan.Add calls on an initialised plan.        *)

MaxAdds == 4

\* the suites handed to Add
AddNames == {"s1", "s2", "s3"}
AddTestLists == {<<GetTestDecl>>, <<GetTestDecl, GetTestDecl>>}

\* a call of TestPlan.Add; added lists the suites of the calls that returned nil
DoPlanAdd ==
    /\ loadLog.n < MaxAdds
    /\ \E name \in AddNames, tests \in AddTestLists :
        LET testSuite == CreateTestSuite(name, tests, PlanState)
            after == PlanAdd(PlanState, testSuite)
        IN /\ Store(after)
           /\ loadLog' = [op |-> "Add", n |-> loadLog.n + 1, name |-> name,
                          err |-> after.err, prevMap |-> SuiteMap,
                          prevList |-> SuiteList,
                          added |-> IF after.err = "nil"
                                    THEN Append(loadLog.added, testSuite)
                                    ELSE loadLog.added]
    /\ UNCHANGED <<paramVars, histVars, corpusVars, runVars>>

InitAdd ==
    /\ PlanIdle
    /\ loadLog = [op |-> "none", n |-> 0, name |-> "", err |-> "nil",
                  prevMap |-> EmptyMap, prevList |-> <<>>, added |-> <<>>]
    /\ ParamsIdle /\ HistIdle /\ CorpusIdle /\ RunIdle

NextAdd == DoPlanAdd

SpecAdd == InitAdd /\ [][NextAdd]_vars

\* the suites of SuiteList, in order
ListedSuites == [i \in 1..Len(SuiteList) |-> heap[SuiteList[i]]]

\* C11: after any sequence of Add calls no two suites of SuiteList have the
\* same name, the keys of SuiteMap are exactly the names of the suites of
\* SuiteList and map to those same suites, SuiteList is in the order of the
\* successful adds, and an Add of a registered name returns the
\* duplicate-name error and leaves SuiteMap and SuiteList unchanged.
C11_UniqueSuiteNames ==
    /\ \A i, j \in 1..Len(SuiteList) :
            heap[SuiteList[i]].Name = heap[SuiteList[j]].Name => i = j
    /\ DOMAIN SuiteMap = {heap[SuiteList[i]].Name : i \in 1..Len(SuiteList)}
    /\ \A i \in 1..Len(SuiteList) : SuiteMap[heap[SuiteList[i]].Name] = SuiteList[i]
    /\ ListedSuites = loadLog.added
    /\ loadLog.op = "Add" =>
            IF loadLog.name \in DOMAIN loadLog.prevMap
            THEN /\ loadLog.err = "duplicate"
                 /\ SuiteMap = loadLog.prevMap
                 /\ SuiteList = loadLog.prevList
            ELSE /\ loadLog.err = "nil"
                 /\ SuiteList = Append(loadLog.prevList, SuiteMap[loadLog.name])

\* two suites registered, then an Add of a name that is taken
C11_Witness ==
    /\ loadLog.op = "Add"
    /\ loadLog.err = "duplicate"
    /\ Len(SuiteList) = 2
    /\ loadLog.n = 3

====
